---------------------------- MODULE Spec2Model ----------------------------
(***************************************************************************)
(* The OrderBy operator of velox/exec/OrderBy.cpp as a state machine.      *)
(*                                                                         *)
(* The operator adapts the sort/spill engine (SortBuffer) to the driver's  *)
(* push/pull protocol and to the memory governor's reclaim protocol.  The  *)
(* operator's code is translated statement by statement; the engine and    *)
(* the Operator base class, whose code lives in other files, are modelled  *)
(* from their documented contract.                                         *)
(*                                                                         *)
(* Pointers and optionals are sequences of length at most one: <<>> is     *)
(* nullptr / nullopt / SQL NULL, <<x>> holds x.                            *)
(***************************************************************************)
EXTENDS Integers, Sequences, FiniteSets, Bags, TLC

VARIABLES
  plan,                    \* the OrderByNode and configuration the operator was built from
  constructed,             \* the constructor returned normally
  spillConfig_,            \* Operator::spillConfig_ (optional)
  noMoreInput_,            \* Operator::noMoreInput_
  finished_,               \* OrderBy::finished_
  nonReclaimableSection_,  \* Operator::nonReclaimableSection_
  numSpillRuns_,           \* OrderBy::numSpillRuns_
  sortBuffer_,             \* OrderBy::sortBuffer_ (unique_ptr)
  pool,                    \* the operator's memory pool: used and reserved bytes
  stats,                   \* MemoryReclaimer::Stats passed to reclaim
  opStats,                 \* spill statistics recorded on the operator
  opc,                     \* position of the operator (driver) thread
  gpc,                     \* position of the memory-governor thread inside reclaim
  gcall,                   \* the reclaim call in flight: its argument and the state it entered in
  calls,                   \* number of calls made to each operator method
  engineCalls,             \* calls the operator forwarded to the engine: their number,
                           \* and the arguments of the latest spill
  received,                \* rows the engine accepted through addInput, in order
  delivered,               \* rows returned by getOutput, in order
  lastOutput,              \* what the latest getOutput call returned
  outputEntry,             \* the phase the latest getOutput call was made in
  lastReclaim,             \* how the latest reclaim call ended
  lastError,               \* the exception the latest call ended with, if any
  fault                    \* undefined behaviour the program ran into

vars == <<plan, constructed, spillConfig_, noMoreInput_, finished_,
          nonReclaimableSection_, numSpillRuns_, sortBuffer_, pool, stats,
          opStats, opc, gpc, gcall, calls, engineCalls, received, delivered,
          lastOutput, outputEntry, lastReclaim, lastError, fault>>

-----------------------------------------------------------------------------
(* Bounds of the model *)

MaxKeys == 2          \* sort keys per plan node
MaxBatches == 2       \* addInput calls
MaxBatchRows == 2     \* rows per input batch
MaxReclaims == 2      \* reclaim calls
MaxGetOutputs == 4    \* getOutput calls
MaxNoMoreInputs == 2  \* noMoreInput calls
MaxTargetBytes == 1   \* largest targetBytes hint

-----------------------------------------------------------------------------
(* Values *)

NullPtr == <<>>
Ptr(x) == <<x>>
Deref(p) == p[1]

\* The channel exprToChannel gives a constant expression: the largest
\* column_index_t (all bits set), written as the 32-bit integer of that pattern.
kConstantChannel == -1

\* Rows of the two-column schema the operator is built over.
Rows == {<<NullPtr, Ptr(1)>>, <<Ptr(5), Ptr(1)>>, <<Ptr(1), Ptr(5)>>}

RECURSIVE SeqsUpTo(_, _)
SeqsUpTo(S, n) ==
  IF n = 0 THEN {<<>>}
  ELSE LET shorter == SeqsUpTo(S, n - 1)
       IN shorter \cup {Append(s, x) : s \in {t \in shorter : Len(t) = n - 1}, x \in S}

\* Input batches (RowVectorPtr): non-empty row vectors.
Batches == SeqsUpTo(Rows, MaxBatchRows) \ {<<>>}

\* Sorting key expressions: a field access of a column, or a constant.
KeyExprs == {[kind |-> "field", column |-> 0], [kind |-> "field", column |-> 1],
             [kind |-> "constant", column |-> 0]}

SortOrders == [ascending : BOOLEAN, nullsFirst : BOOLEAN]

\* A sorting key with its order, as the plan node lists them.
PlanKeys == [expr : KeyExprs, order : SortOrders]

RECURSIVE BagOfSeq(_)
BagOfSeq(s) == IF s = <<>> THEN EmptyBag ELSE BagOfSeq(Tail(s)) (+) SetToBag({Head(s)})

RECURSIVE Flatten(_)
Flatten(ss) == IF ss = <<>> THEN <<>> ELSE Head(ss) \o Flatten(Tail(ss))

Min(a, b) == IF a < b THEN a ELSE b

-----------------------------------------------------------------------------
(* Comparator / SortKeySpec derivation *)

fromSortOrderToCompareFlags_SwapFlags(sortOrder) ==
  [nullsFirst |-> sortOrder.ascending,
   ascending |-> sortOrder.nullsFirst,
   equalsOnly |-> FALSE,
   nullHandlingMode |-> "NoStop"]

fromSortOrderToCompareFlags_StopAtNull(sortOrder) ==
  [nullsFirst |-> sortOrder.nullsFirst,
   ascending |-> sortOrder.ascending,
   equalsOnly |-> FALSE,
   nullHandlingMode |-> "StopAtNull"]

fromSortOrderToCompareFlags(sortOrder) ==
  [nullsFirst |-> sortOrder.nullsFirst,
   ascending |-> sortOrder.ascending,
   equalsOnly |-> FALSE,
   nullHandlingMode |-> "NoStop"]

\* exprToChannel: the column of a field access, kConstantChannel for a constant.
exprToChannel(expr) ==
  IF expr.kind = "field" THEN expr.column ELSE kConstantChannel

\* The loop checking only the first sorting key for a constant.
RECURSIVE CollectSortKeys_FirstKeyOnly(_, _, _, _)
CollectSortKeys_FirstKeyOnly(keys, i, sortColumnIndices, sortCompareFlags) ==
  IF i > Len(keys)
  THEN [ok |-> TRUE, sortColumnIndices |-> sortColumnIndices,
        sortCompareFlags |-> sortCompareFlags]
  ELSE LET channel == exprToChannel(keys[i].expr)
       IN IF i = 1 /\ channel = kConstantChannel
          THEN [ok |-> FALSE, sortColumnIndices |-> sortColumnIndices,
                sortCompareFlags |-> sortCompareFlags]
          ELSE CollectSortKeys_FirstKeyOnly(keys, i + 1,
                 Append(sortColumnIndices, channel),
                 Append(sortCompareFlags, fromSortOrderToCompareFlags(keys[i].order)))

\* The constructor's loop over the sorting keys from index i on: the channels and
\* flags pushed so far, or a failed check at the first constant key.
RECURSIVE CollectSortKeys(_, _, _, _)
CollectSortKeys(keys, i, sortColumnIndices, sortCompareFlags) ==
  IF i > Len(keys)
  THEN [ok |-> TRUE, sortColumnIndices |-> sortColumnIndices,
        sortCompareFlags |-> sortCompareFlags]
  ELSE LET channel == exprToChannel(keys[i].expr)
       IN IF channel = kConstantChannel
          THEN [ok |-> FALSE, sortColumnIndices |-> sortColumnIndices,
                sortCompareFlags |-> sortCompareFlags]
          ELSE CollectSortKeys(keys, i + 1,
                 Append(sortColumnIndices, channel),
                 Append(sortCompareFlags, fromSortOrderToCompareFlags(keys[i].order)))

-----------------------------------------------------------------------------
(* The sort/spill engine (SortBuffer) *)

CompareInts(x, y) == IF x < y THEN -1 ELSE IF x > y THEN 1 ELSE 0

\* Three-way comparison of two column values under one key's CompareFlags.
CompareValues(a, b, flags) ==
  IF a = NullPtr /\ b = NullPtr THEN 0
  ELSE IF a = NullPtr THEN (IF flags.nullsFirst THEN -1 ELSE 1)
  ELSE IF b = NullPtr THEN (IF flags.nullsFirst THEN 1 ELSE -1)
  ELSE IF flags.ascending THEN CompareInts(Deref(a), Deref(b))
  ELSE CompareInts(Deref(b), Deref(a))

\* Keys applied left to right from key i, stopping at the first non-equal key.
RECURSIVE CompareRowsFrom(_, _, _, _, _)
CompareRowsFrom(a, b, columns, flags, i) ==
  IF i > Len(columns) THEN 0
  ELSE LET c == CompareValues(a[columns[i] + 1], b[columns[i] + 1], flags[i])
       IN IF c # 0 THEN c ELSE CompareRowsFrom(a, b, columns, flags, i + 1)

CompareRows(a, b, columns, flags) == CompareRowsFrom(a, b, columns, flags, 1)

\* Insert row r into the sorted sequence s after every row not greater than it.
RECURSIVE InsertRow(_, _, _, _)
InsertRow(r, s, columns, flags) ==
  IF s = <<>> THEN <<r>>
  ELSE IF CompareRows(Head(s), r, columns, flags) > 0 THEN <<r>> \o s
  ELSE <<Head(s)>> \o InsertRow(r, Tail(s), columns, flags)

\* Stable in-memory sort: the last row inserted into the sorted rows before it.
RECURSIVE SortRows(_, _, _)
SortRows(s, columns, flags) ==
  IF s = <<>> THEN <<>>
  ELSE CHOOSE out \in
         {InsertRow(s[Len(s)], sorted, columns, flags) :
            sorted \in {SortRows(SubSeq(s, 1, Len(s) - 1), columns, flags)}} : TRUE

\* Index of the run whose head row is least (the first such run), 0 if all are empty.
RECURSIVE LeastRun(_, _, _, _, _)
LeastRun(runs, i, best, columns, flags) ==
  IF i > Len(runs) THEN best
  ELSE IF runs[i] = <<>> THEN LeastRun(runs, i + 1, best, columns, flags)
  ELSE IF best = 0 THEN LeastRun(runs, i + 1, i, columns, flags)
  ELSE IF CompareRows(Head(runs[i]), Head(runs[best]), columns, flags) < 0
       THEN LeastRun(runs, i + 1, i, columns, flags)
  ELSE LeastRun(runs, i + 1, best, columns, flags)

\* k-way merge of sorted runs: the least head row, then the merge of the rest.
RECURSIVE MergeRuns(_, _, _)
MergeRuns(runs, columns, flags) ==
  LET k == LeastRun(runs, 1, 0, columns, flags)
  IN IF k = 0 THEN <<>>
     ELSE CHOOSE out \in
            {<<Head(runs[k])>> \o MergeRuns(rest, columns, flags) :
               rest \in {[runs EXCEPT ![k] = Tail(runs[k])]}} : TRUE

\* A new engine in state Accumulating.
NewSortBuffer(columns, flags, batchRows, spillEnabled, threshold) ==
  [sortColumnIndices |-> columns,
   sortCompareFlags |-> flags,
   outputBatchRows |-> batchRows,
   spillEnabled |-> spillEnabled,
   spillMemoryThreshold |-> threshold,
   state |-> "Accumulating",
   data |-> <<>>,
   runs |-> <<>>,
   numOutputRows |-> 0]

\* Spill: sort the resident rows, write them as one new run, release their memory.
\* Nothing to do when no rows are resident.
SortBufferSpill(sb) ==
  IF sb.data = <<>> THEN sb
  ELSE [sb EXCEPT !.runs = Append(@, SortRows(sb.data, sb.sortColumnIndices,
                                             sb.sortCompareFlags)),
                  !.data = <<>>]

\* addInput: store the batch's rows; spill inline when the resident rows exceed
\* the configured threshold (0: no threshold).
SortBufferAddInput(sb, input) ==
  LET stored == [sb EXCEPT !.data = @ \o input]
  IN IF sb.spillEnabled /\ sb.spillMemoryThreshold # 0
        /\ Len(stored.data) > sb.spillMemoryThreshold
     THEN SortBufferSpill(stored)
     ELSE stored

\* Finalize: sort the residue; output is the merge of the residue and all runs.
SortBufferFinalize(sb) ==
  [sb EXCEPT !.data = SortRows(@, sb.sortColumnIndices, sb.sortCompareFlags),
             !.state = "Producing"]

\* The rows the engine streams out, in order.
SortBufferMerged(sb) ==
  MergeRuns(<<sb.data>> \o sb.runs, sb.sortColumnIndices, sb.sortCompareFlags)

\* getOutput: the next batch of at most outputBatchRows rows, or nullptr when
\* every row has been delivered.
SortBufferGetOutput(sb) ==
  LET merged == SortBufferMerged(sb)
      n == Min(sb.outputBatchRows, Len(merged) - sb.numOutputRows)
  IN IF n <= 0
     THEN [output |-> NullPtr, sb |-> [sb EXCEPT !.state = "Exhausted"]]
     ELSE [output |-> Ptr(SubSeq(merged, sb.numOutputRows + 1, sb.numOutputRows + n)),
           sb |-> [sb EXCEPT !.numOutputRows = @ + n]]

\* spilledStats: present once the engine has spilled.
SortBufferSpilledStats(sb) ==
  IF sb.runs = <<>> THEN NullPtr
  ELSE Ptr([spilledRuns |-> Len(sb.runs), spilledRows |-> Len(Flatten(sb.runs))])


-----------------------------------------------------------------------------
(* Collaborators of the operator: the Operator base class and the memory pool *)

\* Operator::canReclaim: the operator was constructed with a spill configuration.
canReclaim == spillConfig_ # NullPtr

\* MemoryPool::release: give back the reservation held beyond the current usage.
PoolRelease(p) == [p EXCEPT !.reserved = p.used]

\* The pool after the engine stored or spilled rows: usage follows the resident
\* rows; the reservation only grows, to the usage plus one row of headroom.
PoolAfter(p, sb) ==
  [used |-> Len(sb.data),
   reserved |-> IF p.reserved > Len(sb.data) THEN p.reserved ELSE Len(sb.data) + 1]

-----------------------------------------------------------------------------
(* Construction *)

\* Configuration values the driver context supplies.
OutputBatchRows == 2
LowSpillThreshold == 1

\* orderBySpillMemoryThreshold: none (0), or a low one that forces spills.
SpillMemoryThresholds == {0, LowSpillThreshold}

\* The plan nodes and configurations the operator is constructed from, with
\* whether its memory pool tracks usage; the threshold is drawn only where the
\* plan can spill, as it is read only there.
PlanNodes ==
  {node \in [sortingKeys : SeqsUpTo(PlanKeys, MaxKeys) \ {<<>>},
             canSpill : BOOLEAN,
             spillMemoryThreshold : SpillMemoryThresholds,
             poolTracksUsage : BOOLEAN] :
     ~node.canSpill => node.spillMemoryThreshold = 0}

NoCalls ==
  [addInput |-> 0, noMoreInput |-> 0, getOutput |-> 0, reclaim |-> 0,
   reclaimDone |-> 0, abort |-> 0]

NoEngineCalls ==
  [addInput |-> 0, noMoreInput |-> 0, getOutput |-> 0, spill |-> 0,
   spillTargetRows |-> 0, spillTargetBytes |-> 0]

NoReclaimCall ==
  [targetBytes |-> 0, noMoreInput |-> FALSE, attempts |-> 0,
   sortBuffer |-> NullPtr, pool |-> [used |-> 0, reserved |-> 0]]

\* OrderBy::OrderBy: the state after constructing the operator from node, or the
\* state after the constructor failed a check: first that the pool tracks
\* usage, then, in the loop over the keys, that no sorting key is a constant.
OrderByCtor(node) ==
  LET keys == CollectSortKeys(node.sortingKeys, 1, <<>>, <<>>)
      ok == node.poolTracksUsage /\ keys.ok
  IN /\ plan = node
     /\ constructed = ok
     /\ spillConfig_ = IF node.canSpill THEN Ptr("spillConfig") ELSE NullPtr
     /\ sortBuffer_ =
          IF ok
          THEN Ptr(NewSortBuffer(keys.sortColumnIndices, keys.sortCompareFlags,
                                 OutputBatchRows, node.canSpill,
                                 node.spillMemoryThreshold))
          ELSE NullPtr
     /\ noMoreInput_ = FALSE
     /\ finished_ = FALSE
     /\ nonReclaimableSection_ = FALSE
     /\ numSpillRuns_ = 0
     /\ pool = [used |-> 0, reserved |-> 0]
     /\ stats = [numNonReclaimableAttempts |-> 0]
     /\ opStats = NullPtr
     /\ opc = "idle"
     /\ gpc = "idle"
     /\ gcall = NoReclaimCall
     /\ calls = NoCalls
     /\ engineCalls = NoEngineCalls
     /\ received = <<>>
     /\ delivered = <<>>
     /\ lastOutput = NullPtr
     /\ outputEntry = "none"
     /\ lastReclaim = "none"
     /\ lastError = IF ~node.poolTracksUsage THEN "pool()->trackUsage()"
                   ELSE IF ~keys.ok THEN "OrderBy doesn't allow constant sorting keys"
                   ELSE "none"
     /\ fault = "none"

\* The plans of the protocol specifications: one key, ascending, nulls first,
\* on the first column or on a constant, and no spill threshold.
ProtocolPlanNodes ==
  {node \in PlanNodes :
     /\ Len(node.sortingKeys) = 1
     /\ node.sortingKeys[1].order = [ascending |-> TRUE, nullsFirst |-> TRUE]
     /\ node.sortingKeys[1].expr # [kind |-> "field", column |-> 1]
     /\ node.spillMemoryThreshold = 0}

\* The input batches of the protocol specifications: rows with a null or a
\* non-null key.
ProtocolBatches ==
  SeqsUpTo({<<NullPtr, Ptr(1)>>, <<Ptr(1), Ptr(5)>>}, MaxBatchRows) \ {<<>>}

Init == \E node \in ProtocolPlanNodes : OrderByCtor(node)

\* Every plan and configuration.
InitSort == \E node \in PlanNodes : OrderByCtor(node)

\* The operator exists and the program has not run into undefined behaviour.
Running == constructed /\ fault = "none"

-----------------------------------------------------------------------------
(* The operator thread: addInput, noMoreInput, getOutput *)

\* OrderBy::addInput: forward the batch to the engine.
AddInput(input) ==
  /\ Running /\ opc = "idle"
  /\ calls.addInput < MaxBatches
  /\ calls' = [calls EXCEPT !.addInput = @ + 1]
  /\ IF sortBuffer_ = NullPtr
     THEN /\ fault' = "addInput: null sortBuffer_"
          /\ UNCHANGED <<sortBuffer_, pool, numSpillRuns_, received, engineCalls,
                         lastError>>
     ELSE LET sb == Deref(sortBuffer_)
              next == SortBufferAddInput(sb, input)
          IN /\ engineCalls' = [engineCalls EXCEPT !.addInput = @ + 1]
             /\ fault' = fault
             /\ IF sb.state = "Accumulating"
                THEN /\ sortBuffer_' = Ptr(next)
                     /\ pool' = PoolAfter(pool, next)
                     /\ numSpillRuns_' = Len(next.runs)
                     /\ received' = received \o input
                     /\ lastError' = "none"
                ELSE /\ lastError' = "addInput: SortBuffer is not accumulating"
                     /\ UNCHANGED <<sortBuffer_, pool, numSpillRuns_, received>>
  /\ UNCHANGED <<outputEntry, plan, constructed, spillConfig_, noMoreInput_, finished_,
                 nonReclaimableSection_, stats, opStats, opc, gpc, gcall,
                 delivered, lastOutput, lastReclaim>>

\* OrderBy::noMoreInput, first statement: Operator::noMoreInput sets the flag.
NoMoreInputFlag ==
  /\ Running /\ opc = "idle"
  /\ calls.noMoreInput < MaxNoMoreInputs
  /\ calls' = [calls EXCEPT !.noMoreInput = @ + 1]
  /\ noMoreInput_' = TRUE
  /\ opc' = "noMoreInput:sortBuffer"
  /\ UNCHANGED <<outputEntry, plan, constructed, spillConfig_, finished_, nonReclaimableSection_,
                 numSpillRuns_, sortBuffer_, pool, stats, opStats, gpc, gcall,
                 engineCalls, received, delivered, lastOutput, lastReclaim,
                 lastError, fault>>

\* OrderBy::noMoreInput, second statement: the engine starts to finalize and
\* marks the section non-reclaimable.
NoMoreInputFinalizeBegin ==
  /\ Running /\ opc = "noMoreInput:sortBuffer"
  /\ IF sortBuffer_ = NullPtr
     THEN /\ fault' = "noMoreInput: null sortBuffer_"
          /\ UNCHANGED <<sortBuffer_, nonReclaimableSection_, engineCalls, opc,
                         lastError>>
     ELSE /\ engineCalls' = [engineCalls EXCEPT !.noMoreInput = @ + 1]
          /\ fault' = fault
          /\ IF Deref(sortBuffer_).state = "Accumulating"
             THEN /\ sortBuffer_' = Ptr([Deref(sortBuffer_) EXCEPT !.state = "Finalizing"])
                  /\ nonReclaimableSection_' = TRUE
                  /\ opc' = "noMoreInput:finalizing"
                  /\ lastError' = lastError
             ELSE /\ lastError' = "noMoreInput: SortBuffer is not accumulating"
                  /\ opc' = "idle"
                  /\ UNCHANGED <<sortBuffer_, nonReclaimableSection_>>
  /\ UNCHANGED <<outputEntry, plan, constructed, spillConfig_, noMoreInput_, finished_,
                 numSpillRuns_, pool, stats, opStats, gpc, gcall, calls, received,
                 delivered, lastOutput, lastReclaim>>

\* OrderBy::noMoreInput, second statement, end: the engine has sorted the residue
\* and prepared the output; the non-reclaimable section ends.
NoMoreInputFinalizeEnd ==
  /\ Running /\ opc = "noMoreInput:finalizing"
  /\ IF sortBuffer_ = NullPtr
     THEN /\ fault' = "noMoreInput: sortBuffer_ destroyed while finalizing"
          /\ UNCHANGED <<sortBuffer_, nonReclaimableSection_, opc>>
     ELSE /\ sortBuffer_' = Ptr(SortBufferFinalize(Deref(sortBuffer_)))
          /\ nonReclaimableSection_' = FALSE
          /\ opc' = "noMoreInput:recordSpillStats"
          /\ fault' = fault
  /\ UNCHANGED <<outputEntry, plan, constructed, spillConfig_, noMoreInput_, finished_,
                 numSpillRuns_, pool, stats, opStats, gpc, gcall, calls,
                 engineCalls, received, delivered, lastOutput, lastReclaim,
                 lastError>>

\* OrderBy::recordSpillStats, called last by noMoreInput: its check that the
\* engine exists.
RecordSpillStatsCheck ==
  /\ Running /\ opc = "noMoreInput:recordSpillStats"
  /\ IF sortBuffer_ = NullPtr
     THEN /\ lastError' = "recordSpillStats: sortBuffer_ is null"
          /\ opc' = "idle"
     ELSE /\ lastError' = lastError
          /\ opc' = "noMoreInput:spilledStats"
  /\ UNCHANGED <<outputEntry, plan, constructed, spillConfig_, noMoreInput_, finished_,
                 nonReclaimableSection_, numSpillRuns_, sortBuffer_, pool, stats,
                 opStats, gpc, gcall, calls, engineCalls, received, delivered,
                 lastOutput, lastReclaim, fault>>

\* OrderBy::recordSpillStats after its check: read the engine's spill statistics
\* and record them when there are some.
RecordSpillStats ==
  /\ Running /\ opc = "noMoreInput:spilledStats"
  /\ IF sortBuffer_ = NullPtr
     THEN /\ fault' = "recordSpillStats: null sortBuffer_"
          /\ UNCHANGED <<opc, opStats, lastError>>
     ELSE LET spillStats == SortBufferSpilledStats(Deref(sortBuffer_))
          IN /\ opc' = "idle"
             /\ lastError' = "none"
             /\ fault' = fault
             /\ opStats' = IF spillStats # NullPtr THEN spillStats ELSE opStats
  /\ UNCHANGED <<outputEntry, plan, constructed, spillConfig_, noMoreInput_, finished_,
                 nonReclaimableSection_, numSpillRuns_, sortBuffer_, pool, stats,
                 gpc, gcall, calls, engineCalls, received, delivered, lastOutput,
                 lastReclaim>>

\* The phase a getOutput call is made in.
Phase ==
  IF finished_ THEN "finished" ELSE IF noMoreInput_ THEN "output" ELSE "input"

\* The part of getOutput after its test: fetch the engine's next batch and set
\* finished_ to whether there was none.
GetOutputFromSortBuffer ==
  IF sortBuffer_ = NullPtr
  THEN /\ fault' = "getOutput: null sortBuffer_"
       /\ UNCHANGED <<sortBuffer_, finished_, engineCalls, delivered, lastOutput,
                      lastError>>
  ELSE LET sb == Deref(sortBuffer_)
           result == SortBufferGetOutput(sb)
       IN /\ engineCalls' = [engineCalls EXCEPT !.getOutput = @ + 1]
          /\ fault' = fault
          /\ IF sb.state \in {"Producing", "Exhausted"}
             THEN /\ sortBuffer_' = Ptr(result.sb)
                  /\ finished_' = (result.output = NullPtr)
                  /\ lastOutput' = result.output
                  /\ delivered' = IF result.output = NullPtr THEN delivered
                                  ELSE delivered \o Deref(result.output)
                  /\ lastError' = "none"
             ELSE /\ lastError' = "getOutput: SortBuffer has not finalized"
                  /\ UNCHANGED <<sortBuffer_, finished_, delivered, lastOutput>>

\* getOutput marking the operator finished whenever it returns nullptr.
GetOutputNothing_MarksFinished ==
  /\ lastOutput' = NullPtr
  /\ lastError' = "none"
  /\ finished_' = TRUE
  /\ UNCHANGED <<sortBuffer_, engineCalls, delivered, fault>>

\* getOutput returning nullptr without entering the engine.
GetOutputNothing ==
  /\ lastOutput' = NullPtr
  /\ lastError' = "none"
  /\ UNCHANGED <<sortBuffer_, finished_, engineCalls, delivered, fault>>

\* What every getOutput call does besides its body.
GetOutputCall ==
  /\ Running /\ opc = "idle"
  /\ calls.getOutput < MaxGetOutputs
  /\ calls' = [calls EXCEPT !.getOutput = @ + 1]
  /\ outputEntry' = Phase
  /\ UNCHANGED <<plan, constructed, spillConfig_, noMoreInput_,
                 nonReclaimableSection_, numSpillRuns_, pool, stats, opStats, opc,
                 gpc, gcall, received, lastReclaim>>

\* getOutput without the test of finished_.
GetOutput_NoFinishedTest ==
  /\ GetOutputCall
  /\ IF ~noMoreInput_ THEN GetOutputNothing ELSE GetOutputFromSortBuffer

\* getOutput without the test of noMoreInput_.
GetOutput_NoInputPhaseTest ==
  /\ GetOutputCall
  /\ IF finished_ THEN GetOutputNothing ELSE GetOutputFromSortBuffer

\* getOutput setting finished_ as soon as the engine returns a short batch.
GetOutput_FinishEarly ==
  /\ GetOutputCall
  /\ IF finished_ \/ ~noMoreInput_
     THEN GetOutputNothing
     ELSE IF sortBuffer_ = NullPtr
     THEN /\ fault' = "getOutput: null sortBuffer_"
          /\ UNCHANGED <<sortBuffer_, finished_, engineCalls, delivered, lastOutput,
                         lastError>>
     ELSE LET result == SortBufferGetOutput(Deref(sortBuffer_))
          IN /\ engineCalls' = [engineCalls EXCEPT !.getOutput = @ + 1]
             /\ fault' = fault
             /\ sortBuffer_' = Ptr(result.sb)
             /\ finished_' = IF result.output = NullPtr THEN TRUE
                             ELSE Len(Deref(result.output)) < OutputBatchRows
             /\ lastOutput' = result.output
             /\ delivered' = IF result.output = NullPtr THEN delivered
                             ELSE delivered \o Deref(result.output)
             /\ lastError' = "none"

\* getOutput setting finished_ to whether there was a batch.
GetOutput_FinishedInverted ==
  /\ GetOutputCall
  /\ IF finished_ \/ ~noMoreInput_
     THEN GetOutputNothing
     ELSE IF sortBuffer_ = NullPtr
     THEN /\ fault' = "getOutput: null sortBuffer_"
          /\ UNCHANGED <<sortBuffer_, finished_, engineCalls, delivered, lastOutput,
                         lastError>>
     ELSE LET result == SortBufferGetOutput(Deref(sortBuffer_))
          IN /\ engineCalls' = [engineCalls EXCEPT !.getOutput = @ + 1]
             /\ fault' = fault
             /\ sortBuffer_' = Ptr(result.sb)
             /\ finished_' = (result.output # NullPtr)
             /\ lastOutput' = result.output
             /\ delivered' = IF result.output = NullPtr THEN delivered
                             ELSE delivered \o Deref(result.output)
             /\ lastError' = "none"

\* getOutput never setting finished_.
GetOutput_NeverFinished ==
  /\ GetOutputCall
  /\ IF finished_ \/ ~noMoreInput_
     THEN GetOutputNothing
     ELSE IF sortBuffer_ = NullPtr
     THEN /\ fault' = "getOutput: null sortBuffer_"
          /\ UNCHANGED <<sortBuffer_, finished_, engineCalls, delivered, lastOutput,
                         lastError>>
     ELSE LET result == SortBufferGetOutput(Deref(sortBuffer_))
          IN /\ engineCalls' = [engineCalls EXCEPT !.getOutput = @ + 1]
             /\ fault' = fault
             /\ sortBuffer_' = Ptr(result.sb)
             /\ finished_' = FALSE
             /\ lastOutput' = result.output
             /\ delivered' = IF result.output = NullPtr THEN delivered
                             ELSE delivered \o Deref(result.output)
             /\ lastError' = "none"

\* OrderBy::getOutput.
GetOutput ==
  /\ GetOutputCall
  /\ IF finished_ \/ ~noMoreInput_ THEN GetOutputNothing ELSE GetOutputFromSortBuffer

-----------------------------------------------------------------------------
(* The memory-governor thread: reclaim *)

TargetBytes == 0..MaxTargetBytes

\* A reclaim call ends: it returned or threw.
ReclaimReturns(how) ==
  /\ gpc' = "idle"
  /\ gcall' = NoReclaimCall
  /\ lastReclaim' = how
  /\ calls' = [calls EXCEPT !.reclaimDone = @ + 1]

\* reclaim without the check of nonReclaimableSection_.
ReclaimChecks_NoSectionCheck(targetBytes) ==
  /\ Running /\ gpc = "idle"
  /\ calls.reclaim < MaxReclaims
  /\ IF ~canReclaim
     THEN /\ gpc' = "idle"
          /\ gcall' = NoReclaimCall
          /\ lastReclaim' = "CheckFailed"
          /\ calls' = [calls EXCEPT !.reclaim = @ + 1, !.reclaimDone = @ + 1]
     ELSE /\ gpc' = "phase"
          /\ gcall' = [targetBytes |-> targetBytes, noMoreInput |-> noMoreInput_,
                       attempts |-> stats.numNonReclaimableAttempts,
                       sortBuffer |-> sortBuffer_, pool |-> pool]
          /\ lastReclaim' = lastReclaim
          /\ calls' = [calls EXCEPT !.reclaim = @ + 1]
  /\ UNCHANGED <<outputEntry, plan, constructed, spillConfig_, noMoreInput_, finished_,
                 nonReclaimableSection_, numSpillRuns_, sortBuffer_, pool, stats,
                 opStats, opc, engineCalls, received, delivered, lastOutput,
                 lastError, fault>>

\* OrderBy::reclaim, the two checks it starts with.
ReclaimChecks(targetBytes) ==
  /\ Running /\ gpc = "idle"
  /\ calls.reclaim < MaxReclaims
  /\ IF ~canReclaim \/ nonReclaimableSection_
     THEN /\ gpc' = "idle"
          /\ gcall' = NoReclaimCall
          /\ lastReclaim' = "CheckFailed"
          /\ calls' = [calls EXCEPT !.reclaim = @ + 1, !.reclaimDone = @ + 1]
     ELSE /\ gpc' = "phase"
          /\ gcall' = [targetBytes |-> targetBytes, noMoreInput |-> noMoreInput_,
                       attempts |-> stats.numNonReclaimableAttempts,
                       sortBuffer |-> sortBuffer_, pool |-> pool]
          /\ lastReclaim' = lastReclaim
          /\ calls' = [calls EXCEPT !.reclaim = @ + 1]
  /\ UNCHANGED <<outputEntry, plan, constructed, spillConfig_, noMoreInput_, finished_,
                 nonReclaimableSection_, numSpillRuns_, sortBuffer_, pool, stats,
                 opStats, opc, engineCalls, received, delivered, lastOutput,
                 lastError, fault>>

\* reclaim without the phase test: it spills in every phase.
ReclaimPhase_NoPhaseTest ==
  /\ Running /\ gpc = "phase"
  /\ gpc' = "spill"
  /\ UNCHANGED <<outputEntry, plan, constructed, spillConfig_, noMoreInput_, finished_,
                 nonReclaimableSection_, numSpillRuns_, sortBuffer_, pool, stats,
                 opStats, opc, gcall, calls, engineCalls, received, delivered,
                 lastOutput, lastReclaim, lastError, fault>>

\* reclaim refusing without counting the attempt.
ReclaimPhase_NoCount ==
  /\ Running /\ gpc = "phase"
  /\ IF noMoreInput_
     THEN /\ stats' = stats
          /\ ReclaimReturns("NonReclaimable")
     ELSE /\ gpc' = "spill"
          /\ UNCHANGED <<stats, gcall, lastReclaim, calls>>
  /\ UNCHANGED <<outputEntry, plan, constructed, spillConfig_, noMoreInput_, finished_,
                 nonReclaimableSection_, numSpillRuns_, sortBuffer_, pool, opStats,
                 opc, engineCalls, received, delivered, lastOutput, lastError,
                 fault>>

\* OrderBy::reclaim, the phase test: refuse once noMoreInput_ is set.
ReclaimPhase ==
  /\ Running /\ gpc = "phase"
  /\ IF noMoreInput_
     THEN /\ stats' = [stats EXCEPT !.numNonReclaimableAttempts = @ + 1]
          /\ ReclaimReturns("NonReclaimable")
     ELSE /\ gpc' = "spill"
          /\ UNCHANGED <<stats, gcall, lastReclaim, calls>>
  /\ UNCHANGED <<outputEntry, plan, constructed, spillConfig_, noMoreInput_, finished_,
                 nonReclaimableSection_, numSpillRuns_, sortBuffer_, pool, opStats,
                 opc, engineCalls, received, delivered, lastOutput, lastError,
                 fault>>

\* reclaim spilling with a hint of 0 bytes whatever its targetBytes.
ReclaimSpill_ZeroHint ==
  /\ Running /\ gpc = "spill"
  /\ IF sortBuffer_ = NullPtr
     THEN /\ fault' = "reclaim: null sortBuffer_"
          /\ UNCHANGED <<sortBuffer_, numSpillRuns_, pool, engineCalls, gpc>>
     ELSE LET next == SortBufferSpill(Deref(sortBuffer_))
          IN /\ sortBuffer_' = Ptr(next)
             /\ numSpillRuns_' = Len(next.runs)
             /\ pool' = PoolAfter(pool, next)
             /\ engineCalls' = [engineCalls EXCEPT !.spill = @ + 1,
                                                   !.spillTargetRows = 0,
                                                   !.spillTargetBytes = 0]
             /\ gpc' = "release"
             /\ fault' = fault
  /\ UNCHANGED <<outputEntry, plan, constructed, spillConfig_, noMoreInput_, finished_,
                 nonReclaimableSection_, stats, opStats, opc, gcall, calls,
                 received, delivered, lastOutput, lastReclaim, lastError>>

\* reclaim marking the section non-reclaimable as it spills.
ReclaimSpill_MarksSection ==
  /\ Running /\ gpc = "spill"
  /\ nonReclaimableSection_' = TRUE
  /\ IF sortBuffer_ = NullPtr
     THEN /\ fault' = "reclaim: null sortBuffer_"
          /\ UNCHANGED <<sortBuffer_, numSpillRuns_, pool, engineCalls, gpc>>
     ELSE LET next == SortBufferSpill(Deref(sortBuffer_))
          IN /\ sortBuffer_' = Ptr(next)
             /\ numSpillRuns_' = Len(next.runs)
             /\ pool' = PoolAfter(pool, next)
             /\ engineCalls' = [engineCalls EXCEPT !.spill = @ + 1,
                                                   !.spillTargetRows = 0,
                                                   !.spillTargetBytes = gcall.targetBytes]
             /\ gpc' = "release"
             /\ fault' = fault
  /\ UNCHANGED <<outputEntry, plan, constructed, spillConfig_, noMoreInput_, finished_,
                 stats, opStats, opc, gcall, calls,
                 received, delivered, lastOutput, lastReclaim, lastError>>

\* OrderBy::reclaim: sortBuffer_->spill(0, targetBytes).
ReclaimSpill ==
  /\ Running /\ gpc = "spill"
  /\ IF sortBuffer_ = NullPtr
     THEN /\ fault' = "reclaim: null sortBuffer_"
          /\ UNCHANGED <<sortBuffer_, numSpillRuns_, pool, engineCalls, gpc>>
     ELSE LET next == SortBufferSpill(Deref(sortBuffer_))
          IN /\ sortBuffer_' = Ptr(next)
             /\ numSpillRuns_' = Len(next.runs)
             /\ pool' = PoolAfter(pool, next)
             /\ engineCalls' = [engineCalls EXCEPT !.spill = @ + 1,
                                                   !.spillTargetRows = 0,
                                                   !.spillTargetBytes = gcall.targetBytes]
             /\ gpc' = "release"
             /\ fault' = fault
  /\ UNCHANGED <<outputEntry, plan, constructed, spillConfig_, noMoreInput_, finished_,
                 nonReclaimableSection_, stats, opStats, opc, gcall, calls,
                 received, delivered, lastOutput, lastReclaim, lastError>>

\* OrderBy::reclaim: pool()->release().
ReclaimRelease ==
  /\ Running /\ gpc = "release"
  /\ pool' = PoolRelease(pool)
  /\ ReclaimReturns("Reclaimed")
  /\ UNCHANGED <<outputEntry, plan, constructed, spillConfig_, noMoreInput_, finished_,
                 nonReclaimableSection_, numSpillRuns_, sortBuffer_, stats, opStats,
                 opc, engineCalls, received, delivered, lastOutput, lastError,
                 fault>>

-----------------------------------------------------------------------------
(* Cancellation *)

MaxAborts == 2

\* abort leaving the engine in place.
Abort_KeepsEngine ==
  /\ Running
  /\ calls.abort < MaxAborts
  /\ calls' = [calls EXCEPT !.abort = @ + 1]
  /\ UNCHANGED <<outputEntry, plan, constructed, spillConfig_, noMoreInput_, finished_,
                 nonReclaimableSection_, numSpillRuns_, stats, opStats, opc, gpc,
                 gcall, engineCalls, received, delivered, lastOutput, lastReclaim,
                 lastError, fault, sortBuffer_, pool>>

\* OrderBy::abort: Operator::abort, then the engine is destroyed.
Abort ==
  /\ Running
  /\ calls.abort < MaxAborts
  /\ calls' = [calls EXCEPT !.abort = @ + 1]
  /\ sortBuffer_' = NullPtr
  /\ pool' = [pool EXCEPT !.used = 0]
  /\ UNCHANGED <<outputEntry, plan, constructed, spillConfig_, noMoreInput_, finished_,
                 nonReclaimableSection_, numSpillRuns_, stats, opStats, opc, gpc,
                 gcall, engineCalls, received, delivered, lastOutput, lastReclaim,
                 lastError, fault>>

-----------------------------------------------------------------------------
(* Specifications *)

\* A step of the operator thread, its input batches drawn from batches.
OperatorStep(batches) ==
  \/ \E input \in batches : AddInput(input)
  \/ NoMoreInputFlag
  \/ NoMoreInputFinalizeBegin
  \/ NoMoreInputFinalizeEnd
  \/ RecordSpillStatsCheck
  \/ RecordSpillStats
  \/ GetOutput

\* A step of the memory-governor thread.
GovernorStep ==
  \/ \E targetBytes \in TargetBytes : ReclaimChecks(targetBytes)
  \/ ReclaimPhase
  \/ ReclaimSpill
  \/ ReclaimRelease

\* Calls made one after another: a call starts or continues only while no call
\* of the other thread is in flight.
Next ==
  \/ gpc = "idle" /\ OperatorStep(ProtocolBatches)
  \/ opc = "idle" /\ GovernorStep
  \/ gpc = "idle" /\ opc = "idle" /\ Abort

Spec == Init /\ [][Next]_vars

\* reclaim and abort racing with the operator thread: every interleaving of the
\* threads' steps.
RaceNext ==
  \/ OperatorStep(ProtocolBatches)
  \/ GovernorStep
  \/ Abort

SpecRace == Init /\ [][RaceNext]_vars

\* The sort itself, over every plan and every input: input batches and reclaim
\* calls one after another, noMoreInput, then getOutput to the end. The reclaim
\* calls carry no byte target: the hint is passed on and changes nothing of
\* the sort.
SortNext ==
  \/ gpc = "idle" /\ ~noMoreInput_ /\ \E input \in Batches : AddInput(input)
  \/ gpc = "idle" /\ NoMoreInputFlag
  \/ NoMoreInputFinalizeBegin
  \/ NoMoreInputFinalizeEnd
  \/ RecordSpillStatsCheck
  \/ RecordSpillStats
  \/ gpc = "idle" /\ noMoreInput_ /\ ~finished_ /\ GetOutput
  \/ opc = "idle" /\ ReclaimChecks(0)
  \/ opc = "idle" /\ (ReclaimPhase \/ ReclaimSpill \/ ReclaimRelease)

SpecSort == InitSort /\ [][SortNext]_vars

\* The run of one operator to its end: input batches and reclaim calls one after
\* another, noMoreInput, then getOutput for as long as the operator is unfinished.
DrainAddInput ==
  gpc = "idle" /\ ~noMoreInput_ /\ \E input \in ProtocolBatches : AddInput(input)
DrainNoMoreInput == gpc = "idle" /\ NoMoreInputFlag
DrainNoMoreInputReturns ==
  \/ NoMoreInputFinalizeBegin
  \/ NoMoreInputFinalizeEnd
  \/ RecordSpillStatsCheck
  \/ RecordSpillStats
DrainGetOutput == gpc = "idle" /\ noMoreInput_ /\ ~finished_ /\ GetOutput
DrainReclaim == opc = "idle" /\ \E targetBytes \in TargetBytes : ReclaimChecks(targetBytes)
DrainReclaimReturns == opc = "idle" /\ (ReclaimPhase \/ ReclaimSpill \/ ReclaimRelease)

DrainNext ==
  \/ DrainAddInput
  \/ DrainNoMoreInput
  \/ DrainNoMoreInputReturns
  \/ DrainGetOutput
  \/ DrainReclaim
  \/ DrainReclaimReturns

\* A call that was entered returns, and the driver keeps calling getOutput while
\* the operator is unfinished.
SpecDrain ==
  /\ Init /\ [][DrainNext]_vars
  /\ WF_vars(DrainNoMoreInputReturns)
  /\ WF_vars(DrainReclaimReturns)
  /\ WF_vars(DrainGetOutput)

-----------------------------------------------------------------------------
(* How a step shows which call it belongs to *)

\* The step enters reclaim.
ReclaimCalled == calls'.reclaim = calls.reclaim + 1

\* The step ends a reclaim call (it returns or throws).
ReclaimEnded == calls'.reclaimDone = calls.reclaimDone + 1

\* The step is a step of a reclaim call.
ReclaimStep == ReclaimCalled \/ ReclaimEnded \/ gpc' # gpc

\* The step is a getOutput call.
GetOutputCalled == calls'.getOutput = calls.getOutput + 1

\* The step runs the engine's spill.
SpillRuns == engineCalls'.spill = engineCalls.spill + 1

\* For a step of a reclaim call: what held when the call was entered.
EnteredAfterNoMoreInput == IF gpc = "idle" THEN noMoreInput_ ELSE gcall.noMoreInput
AttemptsAtEntry ==
  IF gpc = "idle" THEN stats.numNonReclaimableAttempts ELSE gcall.attempts
PreconditionsAtEntry ==
  IF gpc = "idle" THEN canReclaim /\ ~nonReclaimableSection_ ELSE TRUE

\* The step leaves the engine, the pool and the operator's lifecycle as they were.
OperatorUntouched ==
  UNCHANGED <<sortBuffer_, pool, engineCalls, numSpillRuns_, noMoreInput_,
              finished_, nonReclaimableSection_, opStats, received, delivered>>

-----------------------------------------------------------------------------
(* Claims *)

\* C1, as stated: every reclaim call entered after noMoreInput was signalled is a
\* no-op (no spill, no release of reservation, engine and operator state as
\* before, so the later output is that of the run without the call) and ends
\* with the non-reclaimable-attempt counter one higher.
C1_ReclaimAfterNoMoreInputCounts ==
  [][(ReclaimStep /\ EnteredAfterNoMoreInput) =>
       /\ OperatorUntouched
       /\ gpc' \in {"idle", "phase"}
       /\ ReclaimEnded =>
            stats'.numNonReclaimableAttempts = AttemptsAtEntry + 1]_vars

\* C1, amended: every reclaim call entered after noMoreInput was signalled is a
\* no-op (no spill, no release of reservation, engine and operator state as
\* before); it ends with the non-reclaimable-attempt counter one higher when the
\* operator supports reclamation and is outside a non-reclaimable section, and
\* with the counter as it was when it fails one of these two checks.
C1_ReclaimAfterNoMoreInputIsNoOp ==
  [][(ReclaimStep /\ EnteredAfterNoMoreInput) =>
       /\ OperatorUntouched
       /\ gpc' \in {"idle", "phase"}
       /\ ReclaimEnded =>
            /\ stats'.numNonReclaimableAttempts =
                 AttemptsAtEntry + (IF PreconditionsAtEntry THEN 1 ELSE 0)
            /\ lastReclaim' =
                 (IF PreconditionsAtEntry THEN "NonReclaimable" ELSE "CheckFailed")]_vars

\* A reclaim was refused and counted while output was being produced.
C1_Witness ==
  /\ lastReclaim = "NonReclaimable"
  /\ stats.numNonReclaimableAttempts >= 1
  /\ noMoreInput_ /\ ~finished_
  /\ sortBuffer_ # NullPtr
  /\ delivered # <<>>

\* C2: in every interleaving of reclaim with the operator thread, the engine's
\* spill never runs while nonReclaimableSection_ is set or after the operator
\* has left the input phase.
C2_SpillOnlyInReclaimableInputPhase ==
  [][SpillRuns => (~noMoreInput_ /\ ~nonReclaimableSection_)]_vars

\* C3: a reclaim that reaches an engine torn down by abort is a safe no-op: it
\* never dereferences the released engine.
C3_ReclaimSafeAfterAbort == fault # "reclaim: null sortBuffer_"

\* C4: once the operator is finished, every getOutput call returns the
\* end-of-stream signal, does not call the engine and changes no operator state.
C4_FinishedGetOutputIsIdle ==
  [][(GetOutputCalled /\ finished_) =>
       /\ lastOutput' = NullPtr
       /\ OperatorUntouched
       /\ UNCHANGED <<stats, fault>>]_vars

\* getOutput was called on a finished operator that had delivered rows.
C4_Witness ==
  /\ outputEntry = "finished"
  /\ finished_
  /\ delivered # <<>>

\* C5: a getOutput call made before noMoreInput returns no data, does not call
\* the engine and does not set finished, whatever addInput and reclaim calls
\* came before.
C5_GetOutputBeforeNoMoreInput ==
  [][(GetOutputCalled /\ ~noMoreInput_) =>
       /\ lastOutput' = NullPtr
       /\ engineCalls' = engineCalls
       /\ sortBuffer_' = sortBuffer_
       /\ delivered' = delivered
       /\ ~finished_']_vars

\* getOutput was called in the input phase after input and an honored reclaim.
C5_Witness ==
  /\ outputEntry = "input"
  /\ ~noMoreInput_
  /\ calls.addInput >= 1
  /\ lastReclaim = "Reclaimed"
  /\ numSpillRuns_ >= 1

\* C6: after noMoreInput, a getOutput call on an unfinished operator returns
\* exactly the batch the engine produced for the call, appends nothing else to
\* the output, and sets finished exactly when the engine returned end-of-stream:
\* finished is false after every call that returned a batch.
C6_GetOutputReturnsEngineBatch ==
  [][(GetOutputCalled /\ noMoreInput_ /\ ~finished_ /\ sortBuffer_ # NullPtr) =>
       LET result == SortBufferGetOutput(Deref(sortBuffer_))
       IN /\ lastOutput' = result.output
          /\ sortBuffer_' = Ptr(result.sb)
          /\ finished_' = (result.output = NullPtr)
          /\ result.output # NullPtr =>
               /\ Deref(result.output) # <<>>
               /\ delivered' = delivered \o Deref(result.output)
               /\ ~finished_'
          /\ result.output = NullPtr => delivered' = delivered]_vars

\* The operator finished on a call that returned end-of-stream, after calls that
\* returned more than one batch.
C6_Witness ==
  /\ outputEntry = "output"
  /\ finished_
  /\ lastOutput = NullPtr
  /\ Len(delivered) > OutputBatchRows

\* The engine's rows: resident in memory, and in externalized runs.
ResidentRows == Deref(sortBuffer_).data
SpilledRows == Flatten(Deref(sortBuffer_).runs)

\* C7: conservation. While the engine exists, the rows resident in memory plus
\* the rows in externalized runs are exactly the rows received so far, as
\* multisets; and once getOutput has returned end-of-stream, the rows of the
\* returned batches are exactly the rows of the input batches, as multisets,
\* however many reclaims spilled in between.
C7_Conservation ==
  /\ sortBuffer_ # NullPtr =>
       BagOfSeq(ResidentRows) (+) BagOfSeq(SpilledRows) = BagOfSeq(received)
  /\ finished_ => BagOfSeq(delivered) = BagOfSeq(received)

\* All output was delivered from a spilled run and a resident residue.
C7_Witness ==
  /\ finished_
  /\ sortBuffer_ # NullPtr
  /\ numSpillRuns_ >= 1
  /\ ResidentRows # <<>>
  /\ Len(delivered) > OutputBatchRows
  /\ lastReclaim = "Reclaimed"

\* The logical order of the plan, stated on the plan's keys alone: a value's
\* rank under a key puts nulls before or after every non-null value as the key
\* says, and non-null values in ascending or descending order.
KeyRank(v, order) ==
  IF v = NullPtr THEN (IF order.nullsFirst THEN -100 ELSE 100)
  ELSE IF order.ascending THEN Deref(v) ELSE 0 - Deref(v)

\* Row a may come before row b: at the first key from i on which their ranks
\* differ, a's is the smaller.
RECURSIVE NotAfterFrom(_, _, _, _)
NotAfterFrom(a, b, keys, i) ==
  IF i > Len(keys) THEN TRUE
  ELSE LET ra == KeyRank(a[keys[i].expr.column + 1], keys[i].order)
           rb == KeyRank(b[keys[i].expr.column + 1], keys[i].order)
       IN IF ra < rb THEN TRUE
          ELSE IF ra > rb THEN FALSE
          ELSE NotAfterFrom(a, b, keys, i + 1)

Ordered(rows, keys) ==
  \A i \in 1..(Len(rows) - 1) : NotAfterFrom(rows[i], rows[i + 1], keys, 1)

FirstColumn(rows) == [i \in 1..Len(rows) |-> rows[i][1]]

\* A plan of one key on the first column.
FirstColumnPlan(ascending, nullsFirst) ==
  <<[expr |-> [kind |-> "field", column |-> 0],
     order |-> [ascending |-> ascending, nullsFirst |-> nullsFirst]]>>

\* C8: total ordering. For every plan and every input, the concatenation of the
\* batches returned by getOutput is ordered: every adjacent pair (a, b) has
\* a <= b under the plan's keys, ascending or descending and nulls first or
\* last as each key says. Keys [null, 5, null, 1] ascending come out as
\* [null, null, 1, 5] with nulls first and as [1, 5, null, null] with nulls last.
C8_TotalOrdering ==
  constructed =>
    /\ Ordered(delivered, plan.sortingKeys)
    /\ (finished_ /\ FirstColumn(received) = <<NullPtr, Ptr(5), NullPtr, Ptr(1)>>) =>
         /\ plan.sortingKeys = FirstColumnPlan(TRUE, TRUE) =>
              FirstColumn(delivered) = <<NullPtr, NullPtr, Ptr(1), Ptr(5)>>
         /\ plan.sortingKeys = FirstColumnPlan(TRUE, FALSE) =>
              FirstColumn(delivered) = <<Ptr(1), Ptr(5), NullPtr, NullPtr>>

\* Keys [null, 5, null, 1], ascending with nulls last, were delivered in full.
C8_Witness ==
  /\ finished_
  /\ plan.sortingKeys = FirstColumnPlan(TRUE, FALSE)
  /\ FirstColumn(received) = <<NullPtr, Ptr(5), NullPtr, Ptr(1)>>
  /\ FirstColumn(delivered) = <<Ptr(1), Ptr(5), NullPtr, NullPtr>>

\* What the engine delivers for the received rows when it never spills: the
\* in-memory sort of all of them.
UnspilledOutput ==
  LET sb == Deref(sortBuffer_)
  IN SortBufferMerged(SortBufferFinalize(
       [sb EXCEPT !.data = received, !.runs = <<>>, !.numOutputRows = 0,
                  !.state = "Accumulating"]))

\* Two row sequences are the same up to the order among rows equal on all keys.
SameUpToTies(out, ref) ==
  LET sb == Deref(sortBuffer_)
  IN /\ Len(out) = Len(ref)
     /\ BagOfSeq(out) = BagOfSeq(ref)
     /\ \A i \in 1..Len(out) :
          CompareRows(out[i], ref[i], sb.sortColumnIndices, sb.sortCompareFlags) = 0

\* C9: spill transparency. For the same input batches, the output delivered
\* after any number of spills, those forced by reclaim calls in the input phase
\* included, is the output of the run that never spills, up to the order among
\* rows equal on all keys.
C9_SpillTransparency ==
  (finished_ /\ sortBuffer_ # NullPtr) => SameUpToTies(delivered, UnspilledOutput)

\* Output was delivered in full after a reclaim spilled, in another order among
\* equal rows than the run without spills delivers.
C9_Witness ==
  /\ finished_
  /\ sortBuffer_ # NullPtr
  /\ numSpillRuns_ >= 1
  /\ lastReclaim = "Reclaimed"
  /\ Len(delivered) > OutputBatchRows
  /\ delivered # UnspilledOutput

\* C10: a reclaim invoked while the operator does not support reclamation, or
\* while nonReclaimableSection_ is set, fails its check and ends there: no spill,
\* no counted attempt, no reservation released.
C10_ReclaimChecksFailFirst ==
  [][(ReclaimCalled /\ (~canReclaim \/ nonReclaimableSection_)) =>
       /\ ReclaimEnded
       /\ lastReclaim' = "CheckFailed"
       /\ gpc' = "idle"
       /\ OperatorUntouched
       /\ stats' = stats]_vars

\* A reclaim failed its check on an operator that supports reclamation and is
\* inside the engine's non-reclaimable section.
C10_Witness ==
  /\ lastReclaim = "CheckFailed"
  /\ canReclaim
  /\ nonReclaimableSection_
  /\ opc = "noMoreInput:finalizing"

-----------------------------------------------------------------------------
(* How a step shows which call of the operator thread it belongs to *)

\* The step is an addInput call.
AddInputCalled == calls'.addInput = calls.addInput + 1

\* The step enters noMoreInput.
NoMoreInputCalled == calls'.noMoreInput = calls.noMoreInput + 1

\* The step tells the engine to finalize.
FinalizeCalled == engineCalls'.noMoreInput = engineCalls.noMoreInput + 1

\* The step is the recordSpillStats call that ends noMoreInput.
SpillStatsRecorded == opc = "noMoreInput:spilledStats" /\ opc' = "idle"

\* The step is an abort call.
AbortCalled == calls'.abort = calls.abort + 1

\* C11: a reclaim invoked in the input phase with both preconditions met, on an
\* operator that holds its engine, is honored step by step: it passes the checks
\* and the phase test without touching anything, calls the engine's spill once
\* with (0, targetBytes) of the call, then releases the pool's excess
\* reservation and returns; the non-reclaimable-attempt counter stays as it was.
C11_InputPhaseReclaimHonored ==
  [][(ReclaimStep /\ ~EnteredAfterNoMoreInput /\ PreconditionsAtEntry
        /\ sortBuffer_ # NullPtr) =>
       /\ stats' = stats
       /\ fault' = fault
       /\ UNCHANGED <<noMoreInput_, finished_, nonReclaimableSection_, received,
                      delivered>>
       /\ gpc = "idle" =>
            /\ gpc' = "phase"
            /\ UNCHANGED <<engineCalls, sortBuffer_, pool>>
       /\ gpc = "phase" =>
            /\ gpc' = "spill"
            /\ UNCHANGED <<engineCalls, sortBuffer_, pool>>
       /\ gpc = "spill" =>
            /\ gpc' = "release"
            /\ engineCalls' = [engineCalls EXCEPT !.spill = @ + 1,
                                                  !.spillTargetRows = 0,
                                                  !.spillTargetBytes = gcall.targetBytes]
            /\ sortBuffer_' = Ptr(SortBufferSpill(Deref(sortBuffer_)))
            /\ Deref(sortBuffer_').data = <<>>
       /\ gpc = "release" =>
            /\ ReclaimEnded
            /\ lastReclaim' = "Reclaimed"
            /\ pool'.reserved = pool'.used
            /\ UNCHANGED <<engineCalls, sortBuffer_>>
            /\ stats'.numNonReclaimableAttempts = AttemptsAtEntry]_vars

\* A reclaim with the largest hint was honored in the input phase: rows were
\* spilled, the reservation was released and no attempt was counted.
C11_Witness ==
  /\ lastReclaim = "Reclaimed"
  /\ gpc = "idle"
  /\ ~noMoreInput_
  /\ engineCalls.spill >= 1
  /\ engineCalls.spillTargetBytes = MaxTargetBytes
  /\ numSpillRuns_ >= 1
  /\ pool.reserved = pool.used
  /\ stats.numNonReclaimableAttempts = 0

\* C12: abort, called between the other calls in any phase of the lifecycle,
\* never fails, and when it returns the engine is released together with the
\* memory it held; the lifecycle flags stay as they were.
C12_AbortReleasesEngine ==
  [][AbortCalled =>
       /\ sortBuffer_' = NullPtr
       /\ pool'.used = 0
       /\ fault' = fault
       /\ lastError' = lastError
       /\ UNCHANGED <<noMoreInput_, finished_, delivered>>]_vars

\* abort was called twice on an operator that had delivered all its output.
C12_Witness ==
  /\ calls.abort = MaxAborts
  /\ sortBuffer_ = NullPtr
  /\ finished_
  /\ Len(delivered) > OutputBatchRows

\* The plan has a constant sorting key.
HasConstantKey ==
  \E i \in 1..Len(plan.sortingKeys) : plan.sortingKeys[i].expr.kind = "constant"

\* C13: constructing the operator from a plan with a constant sorting key, in
\* whatever position, fails a check of the constructor: there is no operator and
\* no engine, and no call is ever made on it. The check that fails is the one on
\* constant sorting keys, unless the pool does not track usage, which fails the
\* constructor before it looks at the keys.
C13_ConstantKeyRejected ==
  HasConstantKey =>
    /\ ~constructed
    /\ sortBuffer_ = NullPtr
    /\ lastError = IF plan.poolTracksUsage
                   THEN "OrderBy doesn't allow constant sorting keys"
                   ELSE "pool()->trackUsage()"
    /\ calls = NoCalls
    /\ engineCalls = NoEngineCalls

\* Construction failed on a constant key that follows a key on a column.
C13_Witness ==
  /\ ~constructed
  /\ sortBuffer_ = NullPtr
  /\ plan.poolTracksUsage
  /\ lastError = "OrderBy doesn't allow constant sorting keys"
  /\ Len(plan.sortingKeys) = MaxKeys
  /\ plan.sortingKeys[1].expr.kind = "field"
  /\ plan.sortingKeys[MaxKeys].expr.kind = "constant"

\* C14: on an operator that holds its engine, an addInput call made after
\* noMoreInput was signalled or after output was produced forwards nothing to
\* the engine, and a call made in the input phase forwards its batch once,
\* unchanged, after the batches forwarded before.
C14_AddInputOnlyInInputPhase ==
  [][(AddInputCalled /\ sortBuffer_ # NullPtr) =>
       IF noMoreInput_ \/ delivered # <<>>
       THEN engineCalls' = engineCalls /\ received' = received
       ELSE /\ engineCalls'.addInput = engineCalls.addInput + 1
            /\ \E input \in ProtocolBatches : received' = received \o input]_vars

\* C15: noMoreInput leaves the input phase exactly once and in a fixed order.
\* The engine is told to finalize exactly once per operator; a noMoreInput call
\* sets the flag before anything else, then tells the engine to finalize, then
\* records spill statistics: the statistics of the finalized engine when it
\* reports some, nothing otherwise. The flag changes in no other step, and
\* statistics are recorded in no other step.
C15_NoMoreInputOrder ==
  /\ [](/\ engineCalls.noMoreInput <= 1
        /\ engineCalls.noMoreInput <= calls.noMoreInput
        /\ engineCalls.noMoreInput >= 1 => noMoreInput_
        /\ opStats # NullPtr => engineCalls.noMoreInput >= 1)
  /\ [][/\ NoMoreInputCalled =>
             /\ noMoreInput_'
             /\ opc' = "noMoreInput:sortBuffer"
             /\ UNCHANGED <<engineCalls, sortBuffer_, opStats>>
        /\ noMoreInput_' # noMoreInput_ => (NoMoreInputCalled /\ noMoreInput_')
        /\ FinalizeCalled =>
             /\ noMoreInput_
             /\ opc = "noMoreInput:sortBuffer"
             /\ opStats' = opStats
        /\ opStats' # opStats => SpillStatsRecorded
        /\ (SpillStatsRecorded /\ sortBuffer_ # NullPtr) =>
             LET spillStats == SortBufferSpilledStats(Deref(sortBuffer_))
             IN /\ Deref(sortBuffer_).state = "Producing"
                /\ engineCalls.noMoreInput = calls.noMoreInput
                /\ opStats' = IF spillStats = NullPtr THEN opStats ELSE spillStats]_vars

\* A second noMoreInput call returned, after it told the engine to finalize a
\* second time.
C15_Witness ==
  /\ opc = "idle"
  /\ noMoreInput_
  /\ sortBuffer_ # NullPtr
  /\ calls.noMoreInput = 2
  /\ engineCalls.noMoreInput = 2

\* The rows the engine has still to deliver.
RowsToDeliver == Len(received) - Len(delivered)

\* C16: termination of output. Once noMoreInput has been called, a driver that
\* keeps calling getOutput reaches end-of-stream: the operator becomes finished
\* on a call that returns nullptr, with the engine exhausted and every row
\* delivered. Every getOutput call on the way returns at least one row.
C16_OutputTerminates ==
  /\ noMoreInput_ ~>
       (/\ finished_
        /\ lastOutput = NullPtr
        /\ Deref(sortBuffer_).state = "Exhausted"
        /\ RowsToDeliver = 0)
  /\ [][(GetOutputCalled /\ noMoreInput_ /\ ~finished_) =>
          IF RowsToDeliver > 0
          THEN /\ lastOutput' # NullPtr
               /\ Len(delivered') > Len(delivered)
               /\ ~finished_'
               /\ Deref(sortBuffer_').state = "Producing"
          ELSE /\ lastOutput' = NullPtr
               /\ finished_'
               /\ Deref(sortBuffer_').state = "Exhausted"]_vars

\* The operator finished on its third getOutput call, after two batches.
C16_Witness ==
  /\ finished_
  /\ lastOutput = NullPtr
  /\ calls.getOutput >= 3
  /\ Len(delivered) > OutputBatchRows
  /\ Deref(sortBuffer_).state = "Exhausted"

\* C17: no step of a reclaim call, honored, refused or failing a check, writes
\* noMoreInput_, finished_ or nonReclaimableSection_, whatever the operator
\* thread is doing meanwhile; every step that changes one of them is a step of
\* a noMoreInput or getOutput call of the operator thread.
C17_ReclaimKeepsLifecycleFlags ==
  [][/\ ReclaimStep =>
          UNCHANGED <<noMoreInput_, finished_, nonReclaimableSection_>>
     /\ <<noMoreInput_, finished_, nonReclaimableSection_>>' #
          <<noMoreInput_, finished_, nonReclaimableSection_>> =>
          (NoMoreInputCalled \/ opc' # opc \/ GetOutputCalled)]_vars

\* A reclaim was honored and a later one refused, on an operator that went on to
\* finish.
C17_Witness ==
  /\ calls.reclaimDone = MaxReclaims
  /\ lastReclaim = "NonReclaimable"
  /\ numSpillRuns_ >= 1
  /\ noMoreInput_
  /\ finished_

\* C18: every sort order gives CompareFlags with its nulls-first and ascending
\* settings, equality-only false and null handling "no stop"; and the engine is
\* constructed with one channel and one CompareFlags per sorting key, the i-th
\* channel and the flags of the i-th order at position i.
C18_CompareFlagsDerivation ==
  /\ \A order \in SortOrders :
       fromSortOrderToCompareFlags(order) =
         [nullsFirst |-> order.nullsFirst, ascending |-> order.ascending,
          equalsOnly |-> FALSE, nullHandlingMode |-> "NoStop"]
  /\ (constructed /\ sortBuffer_ # NullPtr) =>
       LET sb == Deref(sortBuffer_)
       IN /\ Len(sb.sortColumnIndices) = Len(plan.sortingKeys)
          /\ Len(sb.sortCompareFlags) = Len(plan.sortingKeys)
          /\ \A i \in 1..Len(plan.sortingKeys) :
               /\ sb.sortColumnIndices[i] = plan.sortingKeys[i].expr.column
               /\ sb.sortCompareFlags[i].nullsFirst = plan.sortingKeys[i].order.nullsFirst
               /\ sb.sortCompareFlags[i].ascending = plan.sortingKeys[i].order.ascending
               /\ sb.sortCompareFlags[i].equalsOnly = FALSE
               /\ sb.sortCompareFlags[i].nullHandlingMode = "NoStop"

\* An engine constructed for two keys on different columns with opposite orders.
C18_Witness ==
  /\ constructed
  /\ sortBuffer_ # NullPtr
  /\ Len(plan.sortingKeys) = MaxKeys
  /\ plan.sortingKeys[1].expr.column # plan.sortingKeys[MaxKeys].expr.column
  /\ plan.sortingKeys[1].order.ascending # plan.sortingKeys[MaxKeys].order.ascending
  /\ plan.sortingKeys[1].order.nullsFirst # plan.sortingKeys[MaxKeys].order.nullsFirst
  /\ Deref(sortBuffer_).sortColumnIndices[1] # Deref(sortBuffer_).sortColumnIndices[MaxKeys]

\* C19: in every reachable state finished_ implies noMoreInput_, and no step of
\* addInput, noMoreInput, getOutput or reclaim, in any interleaving, turns
\* either flag from true to false.
C19_LifecycleFlags ==
  /\ [](finished_ => noMoreInput_)
  /\ [][(noMoreInput_ => noMoreInput_') /\ (finished_ => finished_')]_vars

\* getOutput and reclaim were called on a finished operator.
C19_Witness ==
  /\ finished_
  /\ noMoreInput_
  /\ outputEntry = "finished"
  /\ lastReclaim = "NonReclaimable"
  /\ calls.addInput >= 1

\* C20: a reclaim that arrives once noMoreInput_ is set and before any output,
\* on an operator that supports reclamation and is outside a non-reclaimable
\* section, is refused and counted; and the engine's spill is invoked in no
\* step taken after noMoreInput_ was set.
C20_NoSpillOnceFlagSet ==
  /\ [][(ReclaimStep /\ EnteredAfterNoMoreInput /\ PreconditionsAtEntry
           /\ ReclaimEnded) =>
          /\ lastReclaim' = "NonReclaimable"
          /\ stats'.numNonReclaimableAttempts = AttemptsAtEntry + 1]_vars
  /\ [][noMoreInput_ => engineCalls'.spill = engineCalls.spill]_vars

=============================================================================
